---- MODULE Spec2Model ----
(***************************************************************************)
(* Verification model of the ensemble decision pipeline of the Floww       *)
(* agents: the advisory (LLM) call, the resilient response parser and the  *)
(* rule-based fallback of                                                  *)
(*   backend/app/services/llm_analysis_service.py  (LLMAnalysisService)    *)
(*   backend/app/services/yuki_agent_service.py    (YukiAgentService)      *)
(*                                                                         *)
(* Numbers.  Confidences are kept as integers in units of 1/4000, so that  *)
(* the mean of four confidence factors given in thousandths is exactly     *)
(* their sum (0.5 = 2000, 0.6 = 2400, 0.8 = 3200).  volume_24h is kept in  *)
(* units of 10,000 USD (1,000,000 USD = 100), so volume_24h / 10000000 in  *)
(* thousandths is the volume itself.  volatility and bb_position and       *)
(* momentum_score are in thousandths, macd in thousandths, rsi and the 24h *)
(* change in whole points / percent.                                       *)
(***************************************************************************)
EXTENDS Integers, Sequences, FiniteSets, TLC

Min(a, b) == IF a <= b THEN a ELSE b
Max(a, b) == IF a >= b THEN a ELSE b
Abs(a) == IF a < 0 THEN -a ELSE a

\* thousandths -> confidence units (1/4000)
Q(m) == 4 * m

(***************************************************************************)
(* Market snapshots (MarketContext / TechnicalAnalysis)                    *)
(***************************************************************************)
RsiValues == {18, 25, 28, 50, 65, 72, 78}
ChangeValues == {-6, 0, 6}
VolumeValues == {50, 200, 400, 1000}
VolatilityValues == {5, 50, 120, 200}
MacdValues == {0, 10}
BbValues == {300, 500, 700}
TrendValues == {"bullish", "bearish", "sideways"}
MomentumValues == {500, 700}

Snapshots ==
    [rsi : RsiValues, price_change_24h : ChangeValues, volume_24h : VolumeValues,
     volatility : VolatilityValues, macd : MacdValues, bb_position : BbValues,
     trend_direction : TrendValues, momentum_score : MomentumValues]

(***************************************************************************)
(* Decision records (LLMAnalysis / AIDecision), reduced to the fields the  *)
(* decision logic sets: recommendation, confidence, where the reasoning    *)
(* text comes from, and which code path built the record.                  *)
(***************************************************************************)
Decision(rec, conf, rsn, src) ==
    [recommendation |-> rec, confidence |-> conf, reasoning |-> rsn, source |-> src]

\* Python None returned in place of an AIDecision
NoDecision == Decision("NONE", 0, "none", "none")

(***************************************************************************)
(* LLMAnalysisService._fallback_analysis                                   *)
(***************************************************************************)
rsi_confidence(c) ==
    IF c.rsi < 20 THEN 800
    ELSE IF c.rsi < 30 THEN 700
    ELSE IF c.rsi > 80 THEN 800
    ELSE IF c.rsi > 70 THEN 700
    ELSE IF 40 <= c.rsi /\ c.rsi <= 60 THEN 400
    ELSE 500

volume_confidence(c) == Min(800, Max(300, c.volume_24h))

volatility_confidence(c) ==
    IF 20 <= c.volatility /\ c.volatility <= 80 THEN 700
    ELSE IF c.volatility > 150 THEN 300
    ELSE IF c.volatility < 10 THEN 400
    ELSE 500

macd_confidence(c) == IF Abs(c.macd) > 1 THEN 600 ELSE 400

\* sum(confidence_factors) / len(confidence_factors), in units of 1/4000
blended_confidence(c) ==
    rsi_confidence(c) + volume_confidence(c) + volatility_confidence(c) + macd_confidence(c)

fallback_analysis(c) ==
    LET confidence == blended_confidence(c) IN
    IF c.rsi < 30 /\ c.price_change_24h > -5 /\ c.volume_24h > 100
      THEN Decision("BUY", Min(Q(800), confidence + Q(150)), "rule", "rule")
    ELSE IF c.rsi > 70 /\ c.price_change_24h > 5 /\ c.volatility < 100
      THEN Decision("SELL", Min(Q(800), confidence + Q(150)), "rule", "rule")
    ELSE IF c.rsi < 25
      THEN Decision("BUY", Min(Q(850), confidence + Q(200)), "rule", "rule")
    ELSE IF c.rsi > 75
      THEN Decision("SELL", Min(Q(850), confidence + Q(200)), "rule", "rule")
    ELSE IF c.macd > 5 /\ c.price_change_24h > 0 /\ c.rsi < 60
      THEN Decision("BUY", Min(Q(700), confidence + Q(100)), "rule", "rule")
    ELSE Decision("HOLD", confidence, "rule", "rule")

(***************************************************************************)
(* YukiAgentService._fallback_ai_decision (LONG is written BUY and SHORT   *)
(* SELL: the two vocabularies are domain-equivalent)                       *)
(***************************************************************************)
fallback_ai_decision(ta) ==
    IF ta.rsi < 50 /\ ta.bb_position < 400 /\ ta.trend_direction \in {"bullish", "sideways"}
      THEN Decision("BUY", Q(650), "rule", "rule")
    ELSE IF ta.rsi > 50 /\ ta.bb_position > 600 /\ ta.trend_direction \in {"bearish", "sideways"}
      THEN Decision("SELL", Q(650), "rule", "rule")
    ELSE IF ta.momentum_score > 600
      THEN Decision(IF ta.price_change_24h > 0 THEN "BUY" ELSE "SELL", Q(600), "rule", "rule")
    ELSE IF ta.trend_direction = "bullish"
      THEN Decision("BUY", Q(550), "rule", "rule")
    ELSE IF ta.trend_direction = "bearish"
      THEN Decision("SELL", Q(550), "rule", "rule")
    ELSE NoDecision

\* the rule-based decision maker of each service
Services == {"llm", "yuki"}
rule_based(s, c) == IF s = "llm" THEN fallback_analysis(c) ELSE fallback_ai_decision(c)

(***************************************************************************)
(* Advisory texts.  A text is described by its syntax, token class by      *)
(* token class, so that every regex of _clean_json_string and every        *)
(* strategy of _parse_json_with_fallbacks acts on what it matches:         *)
(*   braces  the text has a '{' followed later by a '}'                    *)
(*   pretty  the object is laid out on several lines                       *)
(*   kq      quoting of the property names: "dq" "k", "sq" 'k', "bare" k   *)
(*   rec     the recommendation value: none, BUY, SELL, HOLD or the        *)
(*           number 5 (not a string)                                       *)
(*   recq    quoting of a string recommendation: "dq" or a bare word       *)
(*   conf    the confidence token: none, 0.2, 0.8, 1.7, .8 (no leading     *)
(*           zero) or the string "high"                                    *)
(*   rsn     the reasoning string: none, specific to the data, a generic   *)
(*           phrase of the denylist, or a string that contains "//"        *)
(*   levels  entry_price and stop_loss are given                           *)
(*   tcomma  a comma precedes the closing brace                            *)
(*   junk    stray tokens (???) stand before the closing brace             *)
(*   prose   the words buy / sell / strong found outside the object        *)
(*   cut     (after cleaning) the comment regex removed the tail of a line *)
(*   esc     (after cleaning) line ends were rewritten to a literal \n     *)
(* The properties of an object stand in the order recommendation,          *)
(* confidence, entry_price, stop_loss, reasoning, so on a one-line object  *)
(* the comment regex cuts the reasoning string and the closing brace.      *)
(***************************************************************************)
ProseValues == {{}, {"buy"}, {"sell", "strong"}, {"buy", "strong"}}
ConfTokens == {"none", "0.2", "0.8", "1.7", ".8", "high"}
RsnTokens == {"none", "specific", "generic", "url"}

Text(b, p, k, r, rq, cf, rs, lv, tc, j, pr) ==
    [braces |-> b, pretty |-> p, kq |-> k, rec |-> r, recq |-> rq, conf |-> cf,
     rsn |-> rs, levels |-> lv, tcomma |-> tc, junk |-> j, prose |-> pr,
     cut |-> FALSE, esc |-> FALSE]

\* texts without an object: only the prose matters
FreeTexts ==
    {Text(FALSE, FALSE, "dq", "none", "dq", "none", "none", FALSE, FALSE, FALSE, pr) :
        pr \in ProseValues}

\* one-line objects in every quoting style
LineTexts ==
    {Text(TRUE, FALSE, k, r[1], r[2], cf, rs, lv, tc, j, {}) :
        k \in {"dq", "sq", "bare"},
        r \in {<<"none", "dq">>, <<"BUY", "dq">>, <<"SELL", "dq">>, <<"HOLD", "dq">>,
               <<"SELL", "bare">>, <<"5", "dq">>},
        cf \in ConfTokens, rs \in RsnTokens, lv \in BOOLEAN, tc \in BOOLEAN,
        j \in BOOLEAN}

\* pretty-printed strict JSON, with or without prose around it
PrettyTexts ==
    {Text(TRUE, TRUE, "dq", r, "dq", cf, rs, lv, FALSE, FALSE, pr) :
        r \in {"BUY", "SELL", "HOLD"}, cf \in {"0.2", "0.8", "1.7"},
        rs \in RsnTokens, lv \in BOOLEAN, pr \in {{}, {"sell", "strong"}}}

Texts == FreeTexts \cup LineTexts \cup PrettyTexts

\* ai_text.find('{') >= 0 and rfind('}') + 1 > find('{')
has_json_slice(t) == t.braces

\* the value of a confidence token in units of 1/4000 (numbers only)
conf_number(cf) ==
    CASE cf = "0.2" -> Q(200)
      [] cf = "0.8" -> Q(800)
      [] cf = ".8" -> Q(800)
      [] cf = "1.7" -> Q(1700)
      [] OTHER -> 0

(***************************************************************************)
(* json.loads: strict JSON.  Line breaks are white space; everything else  *)
(* listed above is a syntax error.                                         *)
(***************************************************************************)
json_loads_ok(t) ==
    /\ t.braces
    /\ ~t.cut /\ ~t.esc /\ ~t.junk /\ ~t.tcomma
    /\ t.kq = "dq"
    /\ (t.rec \in {"BUY", "SELL", "HOLD"} => t.recq = "dq")
    /\ t.conf # ".8"

(***************************************************************************)
(* Parsed mappings: the value found under each key, "absent" when the key  *)
(* is missing.  EmptyDict is Python's {}.                                  *)
(***************************************************************************)
Dict(r, cf, rs, lv) == [rec |-> r, conf |-> cf, rsn |-> rs, levels |-> lv]
EmptyDict == Dict("absent", "absent", "absent", FALSE)

absent_if_none(v) == IF v = "none" THEN "absent" ELSE v

\* the mapping a successful whole-text parse yields
full_dict(t) == Dict(absent_if_none(t.rec), absent_if_none(t.conf), absent_if_none(t.rsn), t.levels)

(***************************************************************************)
(* LLMAnalysisService._clean_json_string, regex by regex                   *)
(***************************************************************************)
clean_json_string(t) ==
    [t EXCEPT
        \* re.sub(r'//.*?(?=\n|$)', '', s): also inside string values
        !.cut = (t.rsn = "url"),
        \* re.sub(r',(\s*[}\]])', r'\1', s)
        !.tcomma = FALSE,
        \* quote unquoted property names; 'k' -> "k"
        !.kq = "dq",
        \* re.sub(r'(?<!")(\n)(?!")', r'\\n', s): outside strings as well
        !.esc = t.pretty,
        \* re.sub(r'[\x00-\x1f\x7f-\x9f]', '', s)
        !.pretty = FALSE]

(***************************************************************************)
(* LLMAnalysisService._parse_json_with_fallbacks, strategy by strategy.    *)
(* Each strategy_k_ok says whether strategy k returns, strategy_k_data     *)
(* what it returns.                                                        *)
(***************************************************************************)
\* Strategy 1: json.loads(json_str)
strategy_1_ok(js) == json_loads_ok(js)
strategy_1_data(js) == full_dict(js)

\* Strategy 2: quote bare-word values, then json.loads(fixed_str)
fixed_str(js) == [js EXCEPT !.recq = "dq"]
strategy_2_ok(js) == json_loads_ok(fixed_str(js))
strategy_2_data(js) == full_dict(fixed_str(js))

\* Strategy 3: ast.literal_eval(json_str): Python literal syntax accepts a
\* trailing comma and .8, but no bare words and no stray tokens
strategy_3_ok(js) ==
    /\ js.braces
    /\ ~js.cut /\ ~js.esc /\ ~js.junk
    /\ js.kq = "dq"
    /\ (js.rec \in {"BUY", "SELL", "HOLD"} => js.recq = "dq")
strategy_3_data(js) == full_dict(js)

\* Strategy 4: regex scan for  key : "string" | number  pairs
strategy_4_data(js) ==
    IF js.kq = "sq" THEN EmptyDict
    ELSE Dict(IF js.rec = "5" \/ (js.rec \in {"BUY", "SELL", "HOLD"} /\ js.recq = "dq")
                 THEN js.rec ELSE "absent",
              absent_if_none(js.conf),
              IF js.rsn \in {"specific", "generic"} \/ (js.rsn = "url" /\ ~js.cut)
                 THEN js.rsn ELSE "absent",
              js.levels)
\* "if result:" -- an empty scan is not returned
strategy_4_ok(js) == strategy_4_data(js) # EmptyDict

\* which strategy returns (0: none, the final "return {}")
winning_strategy(js) ==
    IF strategy_1_ok(js) THEN 1
    ELSE IF strategy_2_ok(js) THEN 2
    ELSE IF strategy_3_ok(js) THEN 3
    ELSE IF strategy_4_ok(js) THEN 4
    ELSE 0

\* what the function returns when every strategy has failed
all_failed_result == EmptyDict

parse_json_with_fallbacks(js) ==
    CASE winning_strategy(js) = 1 -> strategy_1_data(js)
      [] winning_strategy(js) = 2 -> strategy_2_data(js)
      [] winning_strategy(js) = 3 -> strategy_3_data(js)
      [] winning_strategy(js) = 4 -> strategy_4_data(js)
      [] OTHER -> all_failed_result

(***************************************************************************)
(* LLMAnalysisService._parse_freeform_response: keyword scan of the whole  *)
(* response, lower-cased (so a BUY inside the object counts as 'buy')      *)
(***************************************************************************)
response_words(t) ==
    t.prose \cup (IF t.rec = "BUY" THEN {"buy"} ELSE {})
            \cup (IF t.rec = "SELL" THEN {"sell"} ELSE {})

parse_freeform_response(t) ==
    LET w == response_words(t) IN
    IF "buy" \in w /\ "strong" \in w THEN Decision("BUY", Q(800), "text", "freeform")
    ELSE IF "buy" \in w THEN Decision("BUY", Q(600), "text", "freeform")
    ELSE IF "sell" \in w /\ "strong" \in w THEN Decision("SELL", Q(800), "text", "freeform")
    ELSE IF "sell" \in w THEN Decision("SELL", Q(600), "text", "freeform")
    ELSE Decision("HOLD", Q(500), "text", "freeform")

(***************************************************************************)
(* LLMAnalysisService._parse_llm_response                                  *)
(***************************************************************************)
\* self.safe_float(analysis_data.get('confidence'), 0.5), then max(0, min(1, .))
llm_confidence(cf) ==
    IF cf \in {"absent", "high"} THEN Q(500)
    ELSE Max(0, Min(Q(1000), conf_number(cf)))

\* the LLMAnalysis(...) built from analysis_data, with its .get defaults
build_analysis(d) ==
    Decision(IF d.rec = "absent" THEN "HOLD" ELSE d.rec,
             llm_confidence(d.conf),
             IF d.rsn = "absent" THEN "default" ELSE d.rsn,
             "parsed")

\* building raises when a value has the wrong type ( 5 .upper() )
build_raises(d) == d.rec = "5"

parse_llm_response(t) ==
    IF ~has_json_slice(t) THEN parse_freeform_response(t)
    ELSE LET analysis_data == parse_json_with_fallbacks(clean_json_string(t)) IN
         IF build_raises(analysis_data) THEN parse_freeform_response(t)
         ELSE build_analysis(analysis_data)

(***************************************************************************)
(* LLMAnalysisService._parse_context_response: one json.loads of the       *)
(* cleaned slice, the generic-phrase denylist, None on any failure         *)
(***************************************************************************)
\* 'AI analysis completed', the default for a missing enhancement_reasoning,
\* is itself on the denylist
is_generic(rs) == rs \in {"generic", "absent"}

parse_context_response(t) ==
    LET js == clean_json_string(t) IN
    IF ~t.braces \/ ~json_loads_ok(js) THEN NoDecision
    ELSE LET data == full_dict(js) IN
         IF is_generic(data.rsn) THEN NoDecision
         ELSE IF data.conf = "high" THEN NoDecision
         ELSE Decision("HOLD",
                       IF data.conf = "absent" THEN Q(500) ELSE conf_number(data.conf),
                       data.rsn, "context")

(***************************************************************************)
(* YukiAgentService._ai_analyze_opportunity, lines 650-707: one strict     *)
(* json.loads of the slice as received.  kind is "decision" (an AIDecision *)
(* is returned), "none" (return None) or "raise" (an exception that the    *)
(* inner except does not catch and the outer except Exception does).       *)
(***************************************************************************)
Outcome(k, d) == [kind |-> k, decision |-> d]

yuki_parse(t) ==
    IF ~json_loads_ok(t) THEN Outcome("none", NoDecision)
    ELSE LET data == full_dict(t) IN
         IF data.rec = "absent" \/ data.conf = "absent" \/ data.rsn = "absent"
           THEN Outcome("none", NoDecision)
         ELSE IF data.rec = "5" THEN Outcome("raise", NoDecision)
         ELSE IF data.rec # "HOLD" /\ ~data.levels THEN Outcome("raise", NoDecision)
         ELSE IF data.conf = "high" THEN Outcome("none", NoDecision)
         ELSE Outcome("decision",
                      Decision(data.rec, conf_number(data.conf), data.rsn, "parsed"))

(***************************************************************************)
(* One analysis run.                                                       *)
(*   svc = "llm":  LLMAnalysisService.analyze_trading_opportunity          *)
(*   svc = "yuki": YukiAgentService._ai_analyze_opportunity, called by     *)
(*                 analyze_specific_token                                  *)
(* pc is the position of the run; the names follow the decision engine's   *)
(* states: start, awaiting (AwaitingAdvisory), received (AdvisoryReceived),*)
(* unavailable (AdvisoryUnavailable), parsed, parse_failed, decided, and   *)
(* returned once the caller has its result; crashed stands for an          *)
(* exception leaving the analysis.                                         *)
(***************************************************************************)
VARIABLES pc, svc, client, snap, text, outcome, parsed, decision, calls, visited, result,
          parser, rules, plan, binance, gate, acp, scan, calc, wrapper

vars == <<pc, svc, client, snap, text, outcome, parsed, decision, calls, visited, result,
          parser, rules, plan, binance, gate, acp, scan, calc, wrapper>>

run_vars == <<pc, svc, client, snap, text, outcome, parsed, decision, calls, visited, result>>

\* the state of the components that are modelled on their own further down
machine_vars == <<plan, binance, gate, acp>>
more_vars == <<scan, calc, wrapper>>
ext_vars == <<machine_vars, more_vars>>

Idle == [pc |-> "idle"]
PlanIdle == plan = Idle
BinanceIdle == binance = Idle
GateIdle == gate = Idle
AcpIdle == acp = Idle
ScanIdle == scan = Idle
CalcIdle == calc = Idle
WrapperIdle == wrapper = Idle
MachinesIdle == PlanIdle /\ BinanceIdle /\ GateIdle /\ AcpIdle
MoreIdle == ScanIdle /\ CalcIdle /\ WrapperIdle
ExtIdle == MachinesIdle /\ MoreIdle

\* the core pipeline and its parser and rule tables are not in use
core_vars == <<run_vars, parser, rules>>

\* bound on the counter of advisory calls (the code has none: one call per run)
MaxCalls == 3

NoText == Text(FALSE, FALSE, "dq", "NOTEXT", "dq", "none", "none", FALSE, FALSE, FALSE, {})
NoOutcome == Outcome("pending", NoDecision)

\* snapshots the runs are started with
RunSnapshots ==
    {c \in Snapshots : /\ c.volume_24h = 200 /\ c.macd = 0 /\ c.momentum_score = 500
                       /\ c.volatility \in {50, 200} /\ c.bb_position \in {300, 500}
                       /\ c.trend_direction \in {"bearish", "sideways"}
                       /\ c.price_change_24h = 6 /\ c.rsi \in {25, 50}}

ParserIdle == [pc |-> "idle"]
RulesIdle == [pc |-> "idle"]

Init ==
    /\ pc = "start"
    /\ svc \in Services
    /\ client \in BOOLEAN
    /\ snap \in RunSnapshots
    /\ text = NoText
    /\ outcome = "none"
    /\ parsed = NoOutcome
    /\ decision = NoDecision
    /\ calls = 0
    /\ visited = {}
    /\ result = "pending"
    /\ parser = ParserIdle
    /\ rules = RulesIdle
    /\ ExtIdle

\* where the run goes when the client is missing ("if not self.client")
after_client_missing(s) == "unavailable"

\* mutants of after_query_error: the exception is not caught; the call is
\* issued again
after_query_error_propagates(s) == "crashed"
after_query_error_retries(s) == "start"

\* where the run goes when the advisory call raises (the except Exception
\* around the call of both services)
after_query_error(s) == "unavailable"

\* where the run goes from a response; an exception out of the scanner's
\* parsing block reaches the outer except Exception, i.e. the fallback
after_parse(s, o) ==
    CASE o.kind = "decision" -> "parsed"
      [] o.kind = "none" -> "parse_failed"
      [] OTHER -> "unavailable"

Goto(next) ==
    /\ pc' = next
    /\ visited' = visited \cup {pc}

\* the client check and the outbound call (asyncio.to_thread(messages.create))
Start ==
    /\ pc = "start"
    /\ IF ~client
         THEN /\ Goto(after_client_missing(svc))
              /\ outcome' = "skipped"
              /\ calls' = calls
         ELSE /\ Goto("awaiting")
              /\ outcome' = outcome
              /\ calls' = IF calls < MaxCalls THEN calls + 1 ELSE calls
    /\ UNCHANGED <<svc, client, snap, text, parsed, decision, result, parser, rules, ext_vars>>

\* the advisory service answers with some text
AdvisoryReturns ==
    /\ pc = "awaiting"
    /\ \E t \in Texts : text' = t
    /\ Goto("received")
    /\ outcome' = "received"
    /\ UNCHANGED <<svc, client, snap, parsed, decision, calls, result, parser, rules, ext_vars>>

\* the call raises: unreachable, rate-limited (HTTP 429), refused
AdvisoryRaises ==
    /\ pc = "awaiting"
    /\ Goto(after_query_error(svc))
    /\ outcome' = "raised"
    /\ UNCHANGED <<svc, client, snap, text, parsed, decision, calls, result, parser, rules, ext_vars>>

\* the response parser of the service
parse_outcome(s, t) ==
    IF s = "llm"
      THEN LET a == parse_llm_response(t) IN
           Outcome(IF a.source = "parsed" THEN "decision" ELSE "none", a)
      ELSE yuki_parse(t)

Parse ==
    /\ pc = "received"
    /\ parsed' = parse_outcome(svc, text)
    /\ Goto(after_parse(svc, parsed'))
    /\ UNCHANGED <<svc, client, snap, text, outcome, decision, calls, result, parser, rules, ext_vars>>

\* the parsed record is the decision
Decide ==
    /\ pc = "parsed"
    /\ decision' = parsed.decision
    /\ Goto("decided")
    /\ UNCHANGED <<svc, client, snap, text, outcome, parsed, calls, result, parser, rules, ext_vars>>

\* what a failed parse leaves: llm, the free-form record; yuki, None
ParseFailed ==
    /\ pc = "parse_failed"
    /\ decision' = parsed.decision
    /\ Goto("decided")
    /\ UNCHANGED <<svc, client, snap, text, outcome, parsed, calls, result, parser, rules, ext_vars>>

\* the rule-based decision maker
RuleBased ==
    /\ pc = "unavailable"
    /\ decision' = rule_based(svc, snap)
    /\ Goto("decided")
    /\ UNCHANGED <<svc, client, snap, text, outcome, parsed, calls, result, parser, rules, ext_vars>>

\* what the caller gets: analyze_specific_token turns None and HOLD into
\* "No trading signal generated"; the LLM service returns its LLMAnalysis
emitted(s, d) ==
    IF s = "yuki" /\ (d = NoDecision \/ d.recommendation = "HOLD")
      THEN "no_signal" ELSE "decision"

Return ==
    /\ pc = "decided"
    /\ result' = emitted(svc, decision)
    /\ Goto("returned")
    /\ UNCHANGED <<svc, client, snap, text, outcome, parsed, decision, calls, parser, rules, ext_vars>>

\* the steps of the program itself; the two Advisory actions are the
\* environment's
ProgramStep == Start \/ Parse \/ Decide \/ ParseFailed \/ RuleBased \/ Return

Next == Start \/ AdvisoryReturns \/ AdvisoryRaises \/ Parse \/ Decide \/ ParseFailed
          \/ RuleBased \/ Return

Spec == Init /\ [][Next]_vars

\* the event loop runs every step of the program that is ready; nothing
\* obliges the advisory service to answer or to fail
FairSpec == Init /\ [][Next]_vars /\ WF_vars(ProgramStep)

(***************************************************************************)
(* The response parser on its own, statement by statement:                 *)
(* _parse_llm_response -> _clean_json_string -> _parse_json_with_fallbacks *)
(* (strategies 1 to 4) -> LLMAnalysis(...) or _parse_freeform_response,    *)
(* and _parse_context_response on the same text.                           *)
(*   parser.json_str  the string handed on from step to step               *)
(*   parser.tried     the strategies attempted so far                       *)
(*   parser.input     what strategy 1 was given                             *)
(*   parser.won       the strategy that returned (0: none)                  *)
(*   parser.record    the LLMAnalysis returned                              *)
(*   parser.context   the context analysis returned (NoDecision: None)      *)
(***************************************************************************)
RunIdle ==
    /\ pc = "idle" /\ svc = "llm" /\ client = FALSE
    /\ snap = CHOOSE c \in RunSnapshots : TRUE
    /\ text = NoText /\ outcome = "none" /\ parsed = NoOutcome /\ decision = NoDecision
    /\ calls = 0 /\ visited = {} /\ result = "pending"

ParserState(l, t, js, tr, inp, w, d, rec, ctx) ==
    [pc |-> l, text |-> t, json_str |-> js, tried |-> tr, input |-> inp, won |-> w,
     data |-> d, record |-> rec, context |-> ctx]

ParserInit ==
    /\ RunIdle
    /\ rules = RulesIdle
    /\ ExtIdle
    /\ \E t \in Texts :
         parser = ParserState("begin", t, NoText, {}, NoText, 0, EmptyDict, NoDecision, NoDecision)

\* json_str = response[json_start:json_end], or straight to free-form
ParserSlice ==
    /\ parser.pc = "begin"
    /\ parser' = IF has_json_slice(parser.text)
              THEN [parser EXCEPT !.pc = "clean", !.json_str = parser.text]
              ELSE [parser EXCEPT !.pc = "freeform"]
    /\ UNCHANGED <<run_vars, rules, ext_vars>>

\* json_str = self._clean_json_string(json_str)
ParserClean ==
    /\ parser.pc = "clean"
    /\ parser' = [parser EXCEPT !.pc = "s1", !.json_str = clean_json_string(parser.json_str)]
    /\ UNCHANGED <<run_vars, rules, ext_vars>>

\* a strategy returns its mapping, or the next one is tried; after the last
\* one the function returns all_failed_result
Attempt(k, here, ok, data, onfail) ==
    /\ parser.pc = here
    /\ parser' = IF ok
              THEN [parser EXCEPT !.pc = "build", !.tried = parser.tried \cup {k}, !.won = k,
                             !.data = data,
                             !.input = IF k = 1 THEN parser.json_str ELSE parser.input]
              ELSE [parser EXCEPT !.pc = onfail, !.tried = parser.tried \cup {k},
                             !.data = IF onfail = "build" THEN all_failed_result ELSE parser.data,
                             !.input = IF k = 1 THEN parser.json_str ELSE parser.input]
    /\ UNCHANGED <<run_vars, rules, ext_vars>>

Strategy1 == Attempt(1, "s1", strategy_1_ok(parser.json_str), strategy_1_data(parser.json_str), "s2")
Strategy2 == Attempt(2, "s2", strategy_2_ok(parser.json_str), strategy_2_data(parser.json_str), "s3")
Strategy3 == Attempt(3, "s3", strategy_3_ok(parser.json_str), strategy_3_data(parser.json_str), "s4")
Strategy4 == Attempt(4, "s4", strategy_4_ok(parser.json_str), strategy_4_data(parser.json_str), "build")

\* return LLMAnalysis(...), or the except branch: free-form
ParserBuild ==
    /\ parser.pc = "build"
    /\ parser' = IF build_raises(parser.data)
              THEN [parser EXCEPT !.pc = "freeform"]
              ELSE [parser EXCEPT !.pc = "context", !.record = build_analysis(parser.data)]
    /\ UNCHANGED <<run_vars, rules, ext_vars>>

ParserFreeform ==
    /\ parser.pc = "freeform"
    /\ parser' = [parser EXCEPT !.pc = "context", !.record = parse_freeform_response(parser.text)]
    /\ UNCHANGED <<run_vars, rules, ext_vars>>

\* the context-assessment parser on the same response
ParserContext ==
    /\ parser.pc = "context"
    /\ parser' = [parser EXCEPT !.pc = "done", !.context = parse_context_response(parser.text)]
    /\ UNCHANGED <<run_vars, rules, ext_vars>>

ParserNext == ParserSlice \/ ParserClean \/ Strategy1 \/ Strategy2 \/ Strategy3 \/ Strategy4
                \/ ParserBuild \/ ParserFreeform \/ ParserContext

ParserSpec == ParserInit /\ [][ParserNext]_vars

(***************************************************************************)
(* The rule-based decision makers on their own, over every snapshot        *)
(***************************************************************************)
RulesState(l, c, a, d) == [pc |-> l, snap |-> c, llm |-> a, yuki |-> d]

RulesInit ==
    /\ RunIdle
    /\ parser = ParserIdle
    /\ ExtIdle
    /\ \E c \in Snapshots : rules = RulesState("ready", c, NoDecision, NoDecision)

ApplyRules ==
    /\ rules.pc = "ready"
    /\ rules' = RulesState("done", rules.snap, fallback_analysis(rules.snap), fallback_ai_decision(rules.snap))
    /\ UNCHANGED <<run_vars, parser, ext_vars>>

RulesNext == ApplyRules

RulesSpec == RulesInit /\ [][RulesNext]_vars

(***************************************************************************)
(* Properties of a run (Spec, FairSpec)                                    *)
(***************************************************************************)
Finished == {"decided", "returned"}

\* the confidence floor of the advisory path, 0.5
ConfidenceFloor == 2000

\* the advisory text could not be parsed by the service's parser
unparsable(s, t) ==
    IF s = "llm"
      THEN ~has_json_slice(t) \/ winning_strategy(clean_json_string(t)) = 0
      ELSE ~json_loads_ok(t)

\* C1: when the advisory call is skipped (no client) or raises, the run goes
\* straight to AdvisoryUnavailable, never sees a text or a parse, never lets
\* the exception out, and the decision it ends with is the rule-based
\* decision of its service for the same snapshot.
C1_UnavailableGivesRuleDecision ==
    outcome \in {"skipped", "raised"} =>
        /\ pc \in {"unavailable", "decided", "returned"}
        /\ text = NoText
        /\ parsed = NoOutcome
        /\ pc \in Finished =>
              decision = IF svc = "llm" THEN fallback_analysis(snap)
                                        ELSE fallback_ai_decision(snap)

C1_Witness ==
    /\ pc = "returned" /\ outcome = "raised" /\ calls = 1
    /\ decision.recommendation = "BUY" /\ decision.source = "rule"

\* C2: when a text is received that cannot be parsed, or whose reasoning is
\* generic, the decision of the run is the rule-based decision for the same
\* snapshot (and so carries nothing taken from the text).
C2_UnparsableOrGenericGivesRuleDecision ==
    (pc \in Finished /\ outcome = "received"
        /\ (unparsable(svc, text) \/ text.rsn = "generic"))
    => decision = rule_based(svc, snap)

\* C3: a decision that does not come from the rule-based decision maker never
\* has a confidence below the floor.
C3_NoAdvisoryDecisionBelowFloor ==
    (pc \in Finished /\ decision # NoDecision /\ decision.source # "rule")
    => decision.confidence >= ConfidenceFloor

\* C4: a run never re-enters a state, and when it has returned it has a
\* decision record and hands it to the caller.
C4_EndsDecidedWithRecord ==
    /\ pc \notin visited
    /\ pc = "returned" => (decision # NoDecision /\ result = "decision")

\* C5: every run eventually reaches Decided, whether or not the advisory
\* service ever answers (the program's own steps are scheduled fairly).
C5_EventuallyDecided == <>(pc \in Finished)

C7_AllFailedIsExplicitFailure ==
    (parser.pc = "done" /\ parser.tried = {1, 2, 3, 4} /\ parser.won = 0)
    => parser.record = NoDecision

\* C8: strategy k is attempted only after strategies 1..k-1 were attempted
\* and failed, the strategy that returned is the first one that succeeds on
\* its input and gives the mapping, and strategy 1 is given the slice of the
\* text as received.
C8_StrategiesInOrderOnReceivedText ==
    parser.pc \in {"s2", "s3", "s4", "build", "context", "done"} /\ has_json_slice(parser.text) =>
        /\ \A k \in parser.tried : \A j \in 1..(k - 1) : j \in parser.tried /\ parser.won # j
        /\ parser.won # 0 => parser.tried = 1..parser.won
        /\ parser.won = 1 => parser.data = strategy_1_data(parser.input)
        /\ parser.input = parser.text

\* C9: a parsed result whose reasoning is a generic phrase is rejected by the
\* trading-decision parser and by the context parser alike: neither returns a
\* record that carries it.
C9_GenericReasoningRejected ==
    (parser.pc = "done" /\ parser.text.rsn = "generic")
    => (parser.record.reasoning # "generic" /\ parser.context.reasoning # "generic")

(***************************************************************************)
(* Properties of the rule-based decision makers (RulesSpec)                *)
(***************************************************************************)
\* C10: RSI 25, 24h change +6 % and volume above 1,000,000 give BUY with a
\* confidence of at least 0.6, whatever the other fields of the snapshot.
C10_OversoldGivesBuyAtLeast06 ==
    (rules.pc = "done" /\ rules.snap.rsi = 25 /\ rules.snap.price_change_24h = 6
        /\ rules.snap.volume_24h > 100)
    => /\ rules.llm.recommendation = "BUY" /\ rules.llm.confidence >= Q(600)
       /\ rules.yuki.recommendation = "BUY" /\ rules.yuki.confidence >= Q(600)

\* no branch of the recommendation logic of _fallback_analysis is taken
llm_no_rule_fires(c) ==
    /\ ~(c.rsi < 30 /\ c.price_change_24h > -5 /\ c.volume_24h > 100)
    /\ ~(c.rsi > 70 /\ c.price_change_24h > 5 /\ c.volatility < 100)
    /\ ~(c.rsi < 25)
    /\ ~(c.rsi > 75)
    /\ ~(c.macd > 5 /\ c.price_change_24h > 0 /\ c.rsi < 60)

\* no branch of _fallback_ai_decision assigns a direction
yuki_no_rule_fires(ta) ==
    /\ ~(ta.rsi < 50 /\ ta.bb_position < 400 /\ ta.trend_direction \in {"bullish", "sideways"})
    /\ ~(ta.rsi > 50 /\ ta.bb_position > 600 /\ ta.trend_direction \in {"bearish", "sideways"})
    /\ ~(ta.momentum_score > 600)
    /\ ta.trend_direction \notin {"bullish", "bearish"}

\* the neutral default confidence of a rule-based HOLD, 0.5
NeutralConfidence == Q(500)

\* C11: when no rule of the decision table fires the rule-based decision is
\* HOLD with the neutral default confidence 0.5, so it is never below the
\* confidence floor of the advisory path.
C11_NoRuleGivesNeutralHold ==
    rules.pc = "done" =>
        /\ llm_no_rule_fires(rules.snap) =>
              /\ rules.llm.recommendation = "HOLD"
              /\ rules.llm.confidence = NeutralConfidence
              /\ rules.llm.confidence >= ConfidenceFloor
        /\ yuki_no_rule_fires(rules.snap) =>
              /\ rules.yuki.recommendation = "HOLD"
              /\ rules.yuki.confidence = NeutralConfidence

\* the confidence of an extreme-RSI decision: min(0.85, confidence + 0.2)
extreme_confidence(c) == Min(Q(850), blended_confidence(c) + Q(200))

\* C12: RSI below 25 gives BUY with the extreme adjustment and RSI above 75
\* gives SELL with the extreme adjustment, also when the snapshot satisfies
\* the plain RSI < 30 or RSI > 70 rule.
C12_ExtremeRsiGetsExtremeBoost ==
    rules.pc = "done" =>
        /\ rules.snap.rsi < 25 =>
              /\ rules.llm.recommendation = "BUY"
              /\ rules.llm.confidence = extreme_confidence(rules.snap)
        /\ rules.snap.rsi > 75 =>
              /\ rules.llm.recommendation = "SELL"
              /\ rules.llm.confidence = extreme_confidence(rules.snap)

(***************************************************************************)
(* Trade levels.  A level is kept in units of 1e-7 of the price unit, so   *)
(* that every percentage the code multiplies a price by is exact.  A level *)
(* that the code leaves None is not in "given" (its number is then 0).     *)
(***************************************************************************)
Units(p) == p * 10000000

LevelNames == {"entry", "stop_loss", "target_1", "target_2"}

Levels(e, sl, t1, t2, g) ==
    [entry |-> e, stop_loss |-> sl, target_1 |-> t1, target_2 |-> t2, given |-> g]

NoLevels == Levels(0, 0, 0, 0, {})

\* current_price of the snapshot; the code accepts any float
Prices == {-2, 0, 1, 100}

\* YukiAgentService._fallback_ai_decision: 3% risk, targets at 2 and 3 risks
yuki_rule_levels(direction, current_price) ==
    LET entry_price == Units(current_price)
        risk_distance == current_price * 300000
    IN  IF direction = "BUY"
          THEN Levels(entry_price, entry_price - risk_distance,
                      entry_price + 2 * risk_distance, entry_price + 3 * risk_distance,
                      LevelNames)
          ELSE Levels(entry_price, entry_price + risk_distance,
                      entry_price - 2 * risk_distance, entry_price - 3 * risk_distance,
                      LevelNames)

\* what the advisory text gives for the levels (0: the key is missing)
AiLevels ==
    [rec : {"BUY", "SELL", "HOLD"}, entry_price : {Units(100)},
     stop_loss : {Units(97), Units(103)},
     target_1 : {0, Units(105), Units(95)}, target_2 : {0, Units(110), Units(90)}]

NoAi == [rec |-> "NONE", entry_price |-> 0, stop_loss |-> 0, target_1 |-> 0, target_2 |-> 0]

\* YukiAgentService._ai_analyze_opportunity: HOLD takes the current price
\* for every level; LONG / SHORT take the advisory's values as they are,
\* target_1 and target_2 defaulting to entry * 1.05 and entry * 1.10
yuki_advisory_levels(ai, current_price) ==
    IF ai.rec = "HOLD"
      THEN Levels(Units(current_price), Units(current_price), Units(current_price),
                  Units(current_price), LevelNames)
      ELSE Levels(ai.entry_price, ai.stop_loss,
                  IF ai.target_1 # 0 THEN ai.target_1 ELSE (ai.entry_price \div 100) * 105,
                  IF ai.target_2 # 0 THEN ai.target_2 ELSE (ai.entry_price \div 100) * 110,
                  LevelNames)

\* LLMAnalysisService._fallback_analysis: stop loss and targets from the
\* volatility and the 24h change
volatility_multiplier(c) == Max(20, Min(120, 2 * c.volatility))
volatility_factor(c) == Min(2000, Max(500, 10 * c.volatility))
momentum_factor(c) == Abs(c.price_change_24h) + 100

llm_rule_levels(recommendation, c, current_price) ==
    LET one == 10000000
        dynamic_stop_loss ==
            IF recommendation = "BUY"
              THEN current_price * (one - 10000 * volatility_multiplier(c))
              ELSE current_price * (one + 10000 * volatility_multiplier(c))
        mv == momentum_factor(c) * volatility_factor(c)
    IN  IF recommendation = "BUY"
          THEN Levels(Units(current_price), dynamic_stop_loss,
                      current_price * (one + 3 * mv), current_price * (one + 6 * mv),
                      LevelNames)
          ELSE Levels(Units(current_price), dynamic_stop_loss,
                      current_price * (one + 200 * volatility_factor(c)),
                      current_price * (one + 400 * volatility_factor(c)),
                      LevelNames)

\* LLMAnalysisService._parse_llm_response: the nested entry_strategy,
\* price_targets and risk_management of the advisory, as they are
llm_advisory_levels(ai, current_price) ==
    Levels(ai.entry_price, ai.stop_loss, ai.target_1, ai.target_2,
           {"entry", "stop_loss"} \cup (IF ai.target_1 # 0 THEN {"target_1"} ELSE {})
                                  \cup (IF ai.target_2 # 0 THEN {"target_2"} ELSE {}))

\* RyuAgentService._create_token_analysis_card; the entry is the centre of
\* optimal_entry_range, which every card carries
RiskTolerances == {"low", "medium", "high"}

risk_multiplier(risk_tolerance) ==
    CASE risk_tolerance = "low" -> 30
      [] risk_tolerance = "medium" -> 50
      [] OTHER -> 80

ryu_card_levels(recommendation, current_price, risk_tolerance) ==
    \* "if tp1 else None": a take-profit level of 0 is left out of the card
    IF recommendation = "BUY"
      THEN Levels(Units(current_price),
                  current_price * (10000000 - 10000 * risk_multiplier(risk_tolerance)),
                  current_price * 10500000, current_price * 11200000,
                  IF current_price = 0 THEN {"entry", "stop_loss"} ELSE LevelNames)
    ELSE IF recommendation = "SELL"
      THEN Levels(Units(current_price), 0, Units(current_price), 0,
                  IF current_price = 0 THEN {"entry"} ELSE {"entry", "target_1"})
    ELSE Levels(Units(current_price), 0, 0, 0, {"entry"})

(***************************************************************************)
(* The level calculators on their own: each path that builds a record      *)
(* with price levels, from its inputs to the record.                       *)
(*   plan.path            which code builds the record                     *)
(*   plan.recommendation  the direction of the record ("NONE": no record)  *)
(*   plan.levels          the levels the record carries                    *)
(***************************************************************************)
PlanState(l, pa, price, c, ai, rt, rec, lv) ==
    [pc |-> l, path |-> pa, current_price |-> price, snap |-> c, ai |-> ai,
     risk_tolerance |-> rt, recommendation |-> rec, levels |-> lv]

PlanSnap == CHOOSE c \in RunSnapshots : TRUE

CoreIdle ==
    /\ RunIdle
    /\ parser = ParserIdle
    /\ rules = RulesIdle

PlanInit ==
    /\ CoreIdle
    /\ BinanceIdle /\ GateIdle /\ AcpIdle /\ MoreIdle
    /\ \/ \E pa \in {"yuki_rule", "llm_rule"}, price \in Prices, c \in Snapshots :
             plan = PlanState("ready", pa, price, c, NoAi, "medium", "NONE", NoLevels)
       \/ \E pa \in {"yuki_advisory", "llm_advisory"}, price \in Prices, ai \in AiLevels :
             plan = PlanState("ready", pa, price, PlanSnap, ai, "medium", "NONE", NoLevels)
       \/ \E price \in Prices, rec \in {"BUY", "SELL", "HOLD"}, rt \in RiskTolerances :
             plan = PlanState("ready", "ryu_card", price, PlanSnap, [NoAi EXCEPT !.rec = rec],
                              rt, "NONE", NoLevels)

PlanDone(rec, lv) ==
    /\ plan' = [plan EXCEPT !.pc = "done", !.recommendation = rec, !.levels = lv]
    /\ UNCHANGED <<core_vars, binance, gate, acp, more_vars>>

\* _fallback_ai_decision: None when no rule fires, else the record
YukiRuleLevels ==
    /\ plan.pc = "ready" /\ plan.path = "yuki_rule"
    /\ LET d == fallback_ai_decision(plan.snap) IN
       IF d = NoDecision THEN PlanDone("NONE", NoLevels)
       ELSE PlanDone(d.recommendation, yuki_rule_levels(d.recommendation, plan.current_price))

YukiAdvisoryLevels ==
    /\ plan.pc = "ready" /\ plan.path = "yuki_advisory"
    /\ PlanDone(plan.ai.rec, yuki_advisory_levels(plan.ai, plan.current_price))

LlmRuleLevels ==
    /\ plan.pc = "ready" /\ plan.path = "llm_rule"
    /\ LET d == fallback_analysis(plan.snap) IN
       PlanDone(d.recommendation, llm_rule_levels(d.recommendation, plan.snap, plan.current_price))

LlmAdvisoryLevels ==
    /\ plan.pc = "ready" /\ plan.path = "llm_advisory"
    /\ PlanDone(plan.ai.rec, llm_advisory_levels(plan.ai, plan.current_price))

RyuCardLevels ==
    /\ plan.pc = "ready" /\ plan.path = "ryu_card"
    /\ PlanDone(plan.ai.rec, ryu_card_levels(plan.ai.rec, plan.current_price, plan.risk_tolerance))

PlanNext == YukiRuleLevels \/ YukiAdvisoryLevels \/ LlmRuleLevels \/ LlmAdvisoryLevels
               \/ RyuCardLevels

PlanSpec == PlanInit /\ [][PlanNext]_vars

\* the record has all four levels and they are in the order of a long
long_order(lv) ==
    /\ lv.given = LevelNames
    /\ lv.stop_loss < lv.entry /\ lv.entry < lv.target_1 /\ lv.target_1 < lv.target_2

\* the record has all four levels and they are in the order of a short
short_order(lv) ==
    /\ lv.given = LevelNames
    /\ lv.target_2 < lv.target_1 /\ lv.target_1 < lv.entry /\ lv.entry < lv.stop_loss

\* C13: every BUY record built at a positive price has
\* stop_loss < entry < target_1 < target_2 and every SELL record the mirrored
\* order, on the advisory paths and on the rule-based paths.
C13_LevelsAreOrdered ==
    (plan.pc = "done" /\ plan.current_price > 0) =>
        /\ plan.recommendation = "BUY" => long_order(plan.levels)
        /\ plan.recommendation = "SELL" => short_order(plan.levels)

\* C14: a HOLD record carries no level at all, on the advisory paths and on
\* the rule-based paths.
C14_HoldHasNoLevels ==
    (plan.pc = "done" /\ plan.recommendation = "HOLD") => plan.levels.given = {}

(***************************************************************************)
(* binance_service.py: the shared BinanceRateLimiter and the callers of    *)
(* BinanceService.calculate_technical_indicators, which run as coroutines  *)
(* of one event loop: a caller runs alone from one await to the next.      *)
(* Time is counted in ticks of min_request_interval; the one-minute window *)
(* is WindowTicks ticks long and holds RequestsPerMinute requests.         *)
(*   binance.now                time.time()                                *)
(*   binance.request_times      the deque of the limiter                   *)
(*   binance.last_request_time  of the limiter                             *)
(*   binance.granted            every timestamp acquire has recorded       *)
(*   binance.callers[i]         the coroutine of caller i                  *)
(***************************************************************************)
NumCallers == 3
RequestsPerMinute == 2
WindowTicks == 3
MaxTime == 4

Callers == 1..NumCallers

\* the candles the exchange returns: none, fewer than any indicator needs,
\* the 200 asked for
SeriesLengths == {0, 5, 200}

Indicators(r, m, b) == [rsi_14 |-> r, macd_line |-> m, bb_position |-> b]

\* TechnicalIndicators(): the dataclass defaults
NeutralIndicators == Indicators("50.0", "0.0", "0.5")
NoIndicators == Indicators("unset", "unset", "unset")

\* _calculate_rsi: rolling(window=14).mean() is NaN on fewer than 14 rows and
\* "if not rsi.empty" does not catch it
binance_rsi(n) == IF n < 14 THEN "nan" ELSE "computed"
\* _calculate_macd: ewm(span).mean() is defined from the first row on
binance_macd(n) == "computed"
\* rolling(20) gives NaN bands on fewer than 20 rows; NaN > NaN is false
binance_bb_position(n) == IF n < 20 THEN "0.5" ELSE "computed"

\* the body of calculate_technical_indicators after get_kline_data
indicators_of(n) ==
    IF n = 0 THEN NeutralIndicators
    ELSE Indicators(binance_rsi(n), binance_macd(n), binance_bb_position(n))

\* what get_kline_data returns when acquire refuses: pd.DataFrame()
kline_refused_aborts == "error"
kline_refused == "empty"

Caller(l, w, res, n, ind) == [pc |-> l, wake |-> w, acquired |-> res, df |-> n, indicators |-> ind]
CallerIdle == Caller("idle", 0, "none", 0, NoIndicators)

BinanceInit ==
    /\ CoreIdle
    /\ PlanIdle /\ GateIdle /\ AcpIdle /\ MoreIdle
    /\ binance = [pc |-> "run", now |-> 1, request_times |-> <<>>, last_request_time |-> 0,
                  granted |-> <<>>, callers |-> [i \in Callers |-> CallerIdle]]

RECURSIVE clean_old(_, _)
\* while request_times and request_times[0] < cutoff_time: popleft()
clean_old(times, cutoff_time) ==
    IF times # <<>> /\ Head(times) < cutoff_time THEN clean_old(Tail(times), cutoff_time)
    ELSE times

\* the clock advances
Tick ==
    /\ binance.pc = "run"
    /\ binance.now < MaxTime
    /\ binance' = [binance EXCEPT !.now = binance.now + 1]
    /\ UNCHANGED <<core_vars, plan, gate, acp, more_vars>>

\* calculate_technical_indicators -> get_kline_data -> acquire, up to the
\* first await: refused (empty frame, default indicators), asleep for the
\* rest of the minimum interval, or recorded and waiting for the exchange
KlineBegin(i) ==
    /\ binance.pc = "run"
    /\ binance.callers[i].pc \in {"idle", "done"}
    /\ LET cleaned == clean_old(binance.request_times, binance.now - WindowTicks) IN
       IF Len(cleaned) >= RequestsPerMinute
         THEN binance' = [binance EXCEPT
                 !.request_times = cleaned,
                 !.callers[i] = IF kline_refused = "empty"
                                  THEN Caller("done", 0, "refused", 0, indicators_of(0))
                                  ELSE Caller("aborted", 0, "refused", 0, NoIndicators)]
       ELSE IF binance.now - binance.last_request_time < 1
         THEN binance' = [binance EXCEPT
                 !.request_times = cleaned,
                 !.callers[i] = Caller("sleeping", binance.last_request_time + 1, "none", 0,
                                       NoIndicators)]
       ELSE binance' = [binance EXCEPT
                 !.request_times = Append(cleaned, binance.now),
                 !.last_request_time = binance.now,
                 !.granted = Append(binance.granted, binance.now),
                 !.callers[i] = Caller("fetching", 0, "granted", 0, NoIndicators)]
    /\ UNCHANGED <<core_vars, plan, gate, acp, more_vars>>

\* acquire after asyncio.sleep: the request is recorded without a second
\* look at the window
AcquireResume(i) ==
    /\ binance.pc = "run"
    /\ binance.callers[i].pc = "sleeping"
    /\ binance.now >= binance.callers[i].wake
    /\ binance' = [binance EXCEPT
          !.request_times = Append(binance.request_times, binance.now),
          !.last_request_time = binance.now,
          !.granted = Append(binance.granted, binance.now),
          !.callers[i] = Caller("fetching", 0, "granted", 0, NoIndicators)]
    /\ UNCHANGED <<core_vars, plan, gate, acp, more_vars>>

\* exchange.fetch_ohlcv returns n candles; the indicators are computed
FetchReturns(i) ==
    /\ binance.pc = "run"
    /\ binance.callers[i].pc = "fetching"
    /\ \E n \in SeriesLengths :
         binance' = [binance EXCEPT
            !.callers[i] = Caller("done", 0, "granted", n, indicators_of(n))]
    /\ UNCHANGED <<core_vars, plan, gate, acp, more_vars>>

\* exchange.fetch_ohlcv raises: except Exception -> pd.DataFrame()
FetchRaises(i) ==
    /\ binance.pc = "run"
    /\ binance.callers[i].pc = "fetching"
    /\ binance' = [binance EXCEPT
          !.callers[i] = Caller("done", 0, "failed", 0, indicators_of(0))]
    /\ UNCHANGED <<core_vars, plan, gate, acp, more_vars>>

BinanceNext ==
    \/ Tick
    \/ \E i \in Callers : KlineBegin(i)
    \/ \E i \in Callers : AcquireResume(i)
    \/ \E i \in Callers : FetchReturns(i)
    \/ \E i \in Callers : FetchRaises(i)

BinanceSpec == BinanceInit /\ [][BinanceNext]_vars

\* the number of recorded requests with a timestamp in [t, t + WindowTicks]
granted_in_window(t) ==
    Cardinality({k \in 1..Len(binance.granted) :
                    /\ binance.granted[k] >= t
                    /\ binance.granted[k] <= t + WindowTicks})

\* C15: whatever the interleaving of the callers, no window of one minute
\* holds more recorded acquisitions than requests_per_minute.
C15_WindowNeverExceedsCeiling ==
    binance.pc = "run" =>
        \A k \in 1..Len(binance.granted) :
            granted_in_window(binance.granted[k]) <= RequestsPerMinute

\* C16: a caller whose acquisition was refused, or whose provider call
\* failed, is not aborted: it gets the empty series and the neutral default
\* indicators (RSI 50, MACD 0, bb_position 0.5).
C16_RefusalGivesNeutralDefaults ==
    binance.pc = "run" =>
        \A i \in Callers :
            binance.callers[i].acquired \in {"refused", "failed"} =>
                /\ binance.callers[i].pc = "done"
                /\ binance.callers[i].df = 0
                /\ binance.callers[i].indicators = NeutralIndicators

C16_Witness ==
    /\ binance.pc = "run"
    /\ \E i, j \in Callers :
          /\ binance.callers[i].pc = "done" /\ binance.callers[i].acquired = "refused"
          /\ binance.callers[j].pc = "done" /\ binance.callers[j].acquired = "failed"
          /\ binance.callers[i].indicators.rsi_14 = "50.0"

\* ---------------------------------------------------------------------------
\* The advisory calls and the per-minute call windows of the agents
\* (ryu_agent_service.py 209-238, 284-286; yuki_agent_service.py 161-162,
\* 639-645, 894-912; llm_analysis_service.py 527-547).  The agents are process
\* singletons, so each window is one list shared by all requests.
\* ---------------------------------------------------------------------------

max_calls_per_minute == 2

MaxAdvisory == 3

MaxFetches == 3

\* the services that reach messages.create.  Ryu's card request builds the
\* LLM service's prompt from its own MarketContext, which has no
\* market_regime, so it fails before _query_llm and issues no call.
Advisers == {"yuki", "llm"}

\* _can_make_api_call: the window after dropping the calls older than a
\* minute, and whether it is below the ceiling
can_make_api_call(times, now) ==
    Len(clean_old(times, now - WindowTicks + 1)) < max_calls_per_minute

\* _record_api_call
record_api_call(times, now) == Append(times, now)

AdvisoryCall(s, t) == [by |-> s, at |-> t]

GateInit ==
    /\ CoreIdle /\ PlanIdle /\ BinanceIdle /\ AcpIdle /\ MoreIdle
    /\ gate = [pc |-> "run", now |-> 1,
               ryu_calls |-> <<>>, yuki_calls |-> <<>>,
               fetching |-> 0, fetches |-> 0, advisory |-> <<>>]

GateTick ==
    /\ gate.pc = "run"
    /\ gate.now < MaxTime
    /\ gate' = [gate EXCEPT !.now = gate.now + 1]
    /\ UNCHANGED <<core_vars, plan, binance, acp, more_vars>>

\* the advisory call goes out: messages.create is reached with no call of
\* _can_make_api_call before it and no call of _record_api_call after it
issue_advisory(s) ==
    /\ gate.pc = "run"
    /\ Len(gate.advisory) < MaxAdvisory
    /\ s \in Advisers
    /\ gate' = [gate EXCEPT !.advisory = Append(gate.advisory, AdvisoryCall(s, gate.now))]
    /\ UNCHANGED <<core_vars, plan, binance, acp, more_vars>>

\* _ai_analyze_opportunity: claude_client.messages.create
YukiAdvisory == issue_advisory("yuki")

\* _query_llm: client.messages.create
LlmAdvisory == issue_advisory("llm")

\* _rate_limited_api_call around fetch_ohlcv, up to the await of the fetch:
\* the window is cleaned and current_time is taken; a full window is slept
\* out, never refused
YukiOhlcvBegin ==
    /\ gate.pc = "run"
    /\ gate.fetching = 0
    /\ gate.fetches < MaxFetches
    /\ gate' = [gate EXCEPT
                  !.fetches = gate.fetches + 1,
                  !.yuki_calls = clean_old(gate.yuki_calls, gate.now - WindowTicks + 1),
                  !.fetching = gate.now]
    /\ UNCHANGED <<core_vars, plan, binance, acp, more_vars>>

\* the fetch returns and the time taken before it is appended
YukiOhlcvEnd ==
    /\ gate.pc = "run"
    /\ gate.fetching # 0
    /\ gate' = [gate EXCEPT
                  !.yuki_calls = record_api_call(gate.yuki_calls, gate.fetching),
                  !.fetching = 0]
    /\ UNCHANGED <<core_vars, plan, binance, acp, more_vars>>

GateNext ==
    \/ GateTick
    \/ YukiAdvisory
    \/ LlmAdvisory
    \/ YukiOhlcvBegin
    \/ YukiOhlcvEnd

GateSpec == GateInit /\ [][GateNext]_vars

\* the window an adviser's calls would be recorded in: Yuki's own list, and
\* for the LLM service, which keeps none, the list of Ryu, its caller
window_of(s) ==
    IF s = "yuki" THEN gate.yuki_calls ELSE gate.ryu_calls

\* the advisory calls issued in the minute that ends at t
advisory_in_window(t) ==
    Cardinality({k \in 1..Len(gate.advisory) :
                    gate.advisory[k].at <= t /\ gate.advisory[k].at > t - WindowTicks})

\* C17: every advisory call that was issued is recorded in its agent's
\* one-minute window, and the advisory calls issued within any one minute
\* never exceed max_calls_per_minute.
C17_AdvisoryCallsAreGated ==
    gate.pc = "run" =>
        \A k \in 1..Len(gate.advisory) :
            /\ \E j \in 1..Len(window_of(gate.advisory[k].by)) :
                   window_of(gate.advisory[k].by)[j] = gate.advisory[k].at
            /\ advisory_in_window(gate.advisory[k].at) <= max_calls_per_minute

\* ---------------------------------------------------------------------------
\* Requests of the Virtuals platform (adapter.py 39-147,
\* virtuals_acp_service.py 154-286).  The ACP service is a process singleton
\* and handlers are coroutines of one event loop: a handler runs without
\* interruption up to its first suspension, the await of the agent router.
\* ---------------------------------------------------------------------------

NumRequests == 2

Requests == 1..NumRequests

AgentIds == {"flow-yuki", "flow-ryu"}

RequestTypes == {"analyze", "execute"}

Symbols == {"BTC", "ETH"}

\* amount in units of 0.0001 ETH
amount_of(agent_id) == IF agent_id = "flow-yuki" THEN 10 ELSE 5

service_of(agent_id) == IF agent_id = "flow-yuki" THEN "market_analysis" ELSE "token_analysis"

\* VirtualsRequest
VirtualsRequest(a, t, p) ==
    [agentId |-> a, serviceName |-> service_of(a), requestType |-> t,
     amount |-> amount_of(a), payload |-> p]

Context(a, s, t, m, p) ==
    [agent_id |-> a, service_name |-> s, request_type |-> t, amount |-> m, payload |-> p]

\* the parameters the handler builds: analyze requests wrap the payload in
\* "market_data", execute requests pass it as it is
Parameters(request) ==
    [market_data |-> request.requestType = "analyze", data |-> request.payload]

\* execute_service: parameters["market_data"] if present, else parameters
payload_of(parameters) == parameters.data

\* the context execute_service finds when create_request has stored nothing
DefaultContext == Context("flow-yuki", "market_analysis", "analyze", 10, "none")

\* a mutant: create_request leaves the stored context as it was
stored_context_stale(last, request) == last

\* create_request: _last_agent_id .. _last_payload
stored_context(last, request) ==
    Context(request.agentId, request.serviceName, request.requestType,
            request.amount, Parameters(request))

\* execute_service: the arguments of route_request, read from the stored
\* context, the payload from the handler's own parameters
routed_context(last, parameters) ==
    Context(last.agent_id, last.service_name, last.request_type, last.amount,
            payload_of(parameters))

\* what a request is executed with when it runs alone
own_context(request) ==
    Context(request.agentId, request.serviceName, request.requestType,
            request.amount, request.payload)

\* route_request: the agent's answer is a function of its arguments
route_result(c) == [agent |-> c.agent_id, service |-> c.service_name, symbol |-> c.payload]

NoContext == Context("none", "none", "none", 0, "none")

NoResult == [agent |-> "none", service |-> "none", symbol |-> "none"]

Handler(l, rq, st, c, res) ==
    [pc |-> l, request |-> rq, status |-> st, routed |-> c, result |-> res]

\* the request types a client may send: the two the handler serves and one
\* it does not
RequestedTypes == RequestTypes \cup {"cancel"}

\* what create_request answers: the mock and a mined transaction succeed,
\* a reverted transaction is "failed", an exception is "error"
CreateStatuses == {"success", "failed", "error"}

\* a mutant: the handler goes on whatever create_request answered
create_succeeded_unchecked(create_result) == TRUE

\* if create_result["status"] != "success": raise HTTPException(400)
create_succeeded(create_result) == create_result.status = "success"

\* the dictionary create_request returns for request i: request_id is None
\* unless the request was created
CreateResult(i, st) == [status |-> st, request_id |-> IF st = "success" THEN i ELSE 0]

\* the calls the handler of one request has made: the answer of
\* create_request, and the request ids execute_service was invoked with
NoCalls == [created |-> "none", request_id |-> 0, executed |-> <<>>]

AcpInit ==
    /\ CoreIdle /\ PlanIdle /\ BinanceIdle /\ GateIdle /\ MoreIdle
    /\ \E rq \in [Requests -> {VirtualsRequest(a, t, p) :
                                   a \in AgentIds, t \in RequestedTypes, p \in Symbols}] :
           acp = [pc |-> "run", last |-> DefaultContext,
                  handlers |-> [i \in Requests |->
                                   Handler("new", rq[i], "none", NoContext, NoResult)],
                  calls |-> [i \in Requests |-> NoCalls]]

\* handle_virtuals_request from create_request to its first suspension:
\* create_request stores the context and answers; on success
\* execute_service is invoked with the request id of the answer, reads the
\* context and awaits route_request; otherwise the handler answers 400
after_create(i, create_result) ==
    LET request == acp.handlers[i].request
        last == stored_context(acp.last, request)
    IN  IF create_succeeded(create_result)
        THEN acp' = [acp EXCEPT
                 !.last = last,
                 !.handlers[i] = Handler("routing", request, "pending",
                                         routed_context(last, Parameters(request)),
                                         NoResult),
                 !.calls[i] = [created |-> create_result.status,
                               request_id |-> create_result.request_id,
                               executed |-> Append(acp.calls[i].executed,
                                                   create_result.request_id)]]
        ELSE acp' = [acp EXCEPT
                 !.last = last,
                 !.handlers[i] = Handler("done", request, "rejected", NoContext, NoResult),
                 !.calls[i] = [created |-> create_result.status,
                               request_id |-> create_result.request_id,
                               executed |-> acp.calls[i].executed]]

\* an analyze or execute request whose ACP request is created
HandleRequest(i) ==
    /\ acp.pc = "run"
    /\ acp.handlers[i].pc = "new"
    /\ acp.handlers[i].request.requestType \in RequestTypes
    /\ after_create(i, CreateResult(i, "success"))
    /\ UNCHANGED <<core_vars, plan, binance, gate, more_vars>>

\* create_request with a contract whose transaction fails or raises: the
\* context is stored, the handler answers 400 and nothing is executed
CreateFails(i) ==
    /\ acp.pc = "run"
    /\ acp.handlers[i].pc = "new"
    /\ acp.handlers[i].request.requestType \in RequestTypes
    /\ \E st \in CreateStatuses \ {"success"} : after_create(i, CreateResult(i, st))
    /\ UNCHANGED <<core_vars, plan, binance, gate, more_vars>>

\* a request type other than analyze and execute: 400 with no call of
\* create_request
InvalidRequestType(i) ==
    /\ acp.pc = "run"
    /\ acp.handlers[i].pc = "new"
    /\ acp.handlers[i].request.requestType \notin RequestTypes
    /\ acp' = [acp EXCEPT
                 !.handlers[i] = Handler("done", acp.handlers[i].request, "rejected",
                                         NoContext, NoResult)]
    /\ UNCHANGED <<core_vars, plan, binance, gate, more_vars>>

\* route_request returns and the handler answers
RouteReturns(i) ==
    /\ acp.pc = "run"
    /\ acp.handlers[i].pc = "routing"
    /\ acp' = [acp EXCEPT
                 !.handlers[i].pc = "done",
                 !.handlers[i].status = "success",
                 !.handlers[i].result = route_result(acp.handlers[i].routed)]
    /\ UNCHANGED <<core_vars, plan, binance, gate, more_vars>>

\* route_request fails: the handler answers with the error and no result
RouteFails(i) ==
    /\ acp.pc = "run"
    /\ acp.handlers[i].pc = "routing"
    /\ acp' = [acp EXCEPT
                 !.handlers[i].pc = "done",
                 !.handlers[i].status = "error"]
    /\ UNCHANGED <<core_vars, plan, binance, gate, more_vars>>

AcpNext ==
    \E i \in Requests :
        \/ HandleRequest(i)
        \/ CreateFails(i)
        \/ InvalidRequestType(i)
        \/ RouteReturns(i)
        \/ RouteFails(i)

AcpSpec == AcpInit /\ [][AcpNext]_vars

Lookback == 26

\* _fallback_technical_analysis: rsi_14=55.0, macd_line=0.1, bb_position=0.6
YukiFallbackIndicators == Indicators("55.0", "0.1", "0.6")

\* _perform_technical_analysis when both timeframes return n candles:
\* df_4h['close'].iloc[-1] raises on no candle and df_1h['close'].iloc[-24] on
\* fewer than 24, and the except branch answers with the fallback analysis
yuki_indicators_of(n) ==
    IF n < 24 THEN YukiFallbackIndicators
    ELSE Indicators("computed", "computed", "computed")

\* C19: a caller whose series is shorter than the lookback, the empty series
\* included, ends with the neutral defaults RSI=50, MACD=0, bb_position=0.5,
\* from the exchange service's indicators and from Yuki's.
C19_ShortSeriesGivesNeutralDefaults ==
    binance.pc = "run" =>
        \A i \in Callers :
            (binance.callers[i].pc = "done" /\ binance.callers[i].df < Lookback) =>
                /\ binance.callers[i].indicators = NeutralIndicators
                /\ yuki_indicators_of(binance.callers[i].df) = NeutralIndicators

\* C20: no record is built from a non-positive price: a plan computed for a
\* price of zero or below ends without a recommendation and without levels.
C20_NoRecordFromInvalidPrice ==
    (plan.pc = "done" /\ plan.current_price <= 0) =>
        /\ plan.recommendation = "NONE"
        /\ plan.levels.given = {}

\* ---------------------------------------------------------------------------
\* One analysis from the price provider to the answer
\* (yuki_agent_service.py 190-291, 292-430; ryu_agent_service.py 240-321,
\* 382-496).
\* ---------------------------------------------------------------------------

\* what the price provider does: it is not there (client None), it raises,
\* or it returns candles (none, a few, the number asked for)
Providers == {"missing", "raises", "returns"}

\* _fallback_technical_analysis as a snapshot: rsi_14=55.0, bb_position=0.6,
\* trend bullish, momentum_score=0.65, price_change_24h=0.5 (positive),
\* volume_24h=10,000,000, volatility_24h=3.0, macd_line=0.1
FallbackSnap ==
    [rsi |-> 55, price_change_24h |-> 1, volume_24h |-> 1000, volatility |-> 30,
     macd |-> 0, bb_position |-> 600, trend_direction |-> "bullish",
     momentum_score |-> 650]

\* the advisory service's recommendation for the request; "NONE": no client
AiAnswers == {"NONE", "BUY", "SELL", "HOLD"}

ScanState(l, a, pr, n, ai, src, c, res, rec) ==
    [pc |-> l, agent |-> a, provider |-> pr, candles |-> n, ai |-> ai,
     prices |-> src, snap |-> c, result |-> res, recommendation |-> rec]

ScanInit ==
    /\ CoreIdle /\ MachinesIdle /\ CalcIdle /\ WrapperIdle
    /\ \E a \in {"yuki", "ryu"}, pr \in Providers, n \in SeriesLengths, ai \in AiAnswers :
          /\ pr # "returns" => n = 0
          /\ scan = ScanState("start", a, pr, n, ai, "none", FallbackSnap, "pending", "NONE")

\* the provider gave at least the candles the analysis indexes
provider_served(s) ==
    IF s.agent = "yuki" THEN s.provider = "returns" /\ s.candles >= 24
    ELSE s.provider = "returns" /\ s.candles > 0

\* _perform_technical_analysis: the analysis of the provider's candles, or on
\* any exception (no client, fetch raises, iloc on a short frame) the
\* analysis of _fallback_technical_analysis, built on a tabulated base price
YukiTechnicalAnalysis ==
    /\ scan.pc = "start" /\ scan.agent = "yuki"
    /\ IF provider_served(scan)
       THEN \E c \in RunSnapshots :
               scan' = [scan EXCEPT !.pc = "analysed", !.prices = "provider", !.snap = c]
       ELSE scan' = [scan EXCEPT !.pc = "analysed", !.prices = "synthetic",
                                 !.snap = FallbackSnap]
    /\ UNCHANGED <<core_vars, machine_vars, calc, wrapper>>

\* analyze_specific_token after the analysis: the advisory decision, or the
\* rule-based one without a client; no decision or HOLD is answered with
\* "No trading signal generated", anything else with the signal
YukiAnswer ==
    /\ scan.pc = "analysed" /\ scan.agent = "yuki"
    /\ LET rec == IF scan.ai = "NONE" THEN fallback_ai_decision(scan.snap).recommendation
                  ELSE scan.ai
       IN IF rec \in {"NONE", "HOLD"}
          THEN scan' = [scan EXCEPT !.pc = "done", !.result = "failure"]
          ELSE scan' = [scan EXCEPT !.pc = "done", !.result = "decision",
                                    !.recommendation = rec]
    /\ UNCHANGED <<core_vars, machine_vars, calc, wrapper>>

\* _get_market_data: the provider's price, or _get_fallback_market_data (a
\* tabulated base price with random change and volume) when the symbol or
\* its price is missing or the provider raises
RyuMarketData ==
    /\ scan.pc = "start" /\ scan.agent = "ryu"
    /\ scan' = [scan EXCEPT !.pc = "analysed",
                            !.prices = IF provider_served(scan) THEN "provider"
                                       ELSE "synthetic"]
    /\ UNCHANGED <<core_vars, machine_vars, calc, wrapper>>

\* generate_token_analysis_card after the market data: the card carries the
\* recommendation of the analysis of that data
RyuCard ==
    /\ scan.pc = "analysed" /\ scan.agent = "ryu"
    /\ \E rec \in {"BUY", "SELL", "HOLD"} :
          scan' = [scan EXCEPT !.pc = "done", !.result = "decision",
                               !.recommendation = rec]
    /\ UNCHANGED <<core_vars, machine_vars, calc, wrapper>>

ScanNext ==
    \/ YukiTechnicalAnalysis
    \/ YukiAnswer
    \/ RyuMarketData
    \/ RyuCard

ScanSpec == ScanInit /\ [][ScanNext]_vars

\* C21: when the provider supplies no price data at all the analysis ends in
\* a failure without a decision, and every decision is computed from prices
\* the provider returned.
C21_NoPricesNoDecision ==
    scan.pc = "done" =>
        /\ (scan.provider # "returns" \/ scan.candles = 0) =>
               scan.result = "failure" /\ scan.recommendation = "NONE"
        /\ scan.result = "decision" => scan.prices = "provider"

\* C22: every decision a run ends with, parsed from the advisory text or made
\* by the rules, has a confidence within [0,1].
C22_ConfidenceWithinUnitInterval ==
    (pc \in Finished /\ decision # NoDecision)
    => (decision.confidence >= 0 /\ decision.confidence <= Q(1000))

\* ---------------------------------------------------------------------------
\* YukiAgentService._calculate_opportunity_score (yuki_agent_service.py
\* 432-537).  Scores are integers in units of 1/3000, the overall score in
\* units of 1/300000 (a score times a weight in hundredths); volume_24h is in
\* units of 1,000 USD, volatility in thousandths, the 24h change in percent.
\* ---------------------------------------------------------------------------

ScoreOne == 3 * 1000

\* float -inf, the value of np.log10(0): below every sum the scores can reach
NegInfinity == -(1000 * 1000)

ScoreVolumes == {0, 100, 1000, 10000, 1000000, 10000000}

\* np.log10(volume_usdt / 1_000_000) on the volumes above
log10_of_millions(v) ==
    CASE v = 0 -> NegInfinity
      [] v = 100 -> -1
      [] v = 1000 -> 0
      [] v = 10000 -> 1
      [] v = 1000000 -> 3
      [] v = 10000000 -> 4

\* weights: volume 0.25, volatility 0.20, momentum 0.30, trend 0.15,
\* institutional 0.10
weights ==
    [volume |-> 25, volatility |-> 20, momentum |-> 30, trend |-> 15, institutional |-> 10]

\* volatility = (high - low) / current_price if current_price > 0 else 0,
\* in thousandths
score_volatility(ta) ==
    IF ta.current_price > 0 THEN ((ta.high_24h - ta.low_24h) * 1000) \div ta.current_price
    ELSE 0

\* min(1.0, np.log10(volume_usdt / 1_000_000) / 3)
volume_score(ta) ==
    IF log10_of_millions(ta.volume_24h) = NegInfinity THEN NegInfinity
    ELSE Min(ScoreOne, 1000 * log10_of_millions(ta.volume_24h))

volatility_score(ta) ==
    LET v == score_volatility(ta) IN
    IF v <= 200 THEN 15 * v
    ELSE Max(300, ScoreOne - 10 * (v - 200))

opportunity_momentum_score(ta) ==
    LET p == Abs(ta.price_change_24h) IN
    IF p <= 5 THEN 600 * p
    ELSE IF p <= 15 THEN ScoreOne - 200 * (p - 5)
    ELSE Max(0, 900 - 100 * (p - 15))

\* position_in_range = (current_price - low) / (high - low), compared with a
\* percentage; high > low in every input
position_at_least(ta, pct) ==
    100 * (ta.current_price - ta.low_24h) >= pct * (ta.high_24h - ta.low_24h)
position_at_most(ta, pct) ==
    100 * (ta.current_price - ta.low_24h) <= pct * (ta.high_24h - ta.low_24h)

setup_score(ta) ==
    IF ta.high_24h # ta.low_24h THEN
        IF position_at_least(ta, 80) THEN 2700
        ELSE IF position_at_most(ta, 20) THEN 2700
        ELSE IF (position_at_least(ta, 65) /\ position_at_most(ta, 80))
                \/ (position_at_least(ta, 20) /\ position_at_most(ta, 35)) THEN 2100
        ELSE 1200
    ELSE 1500

institutional_score == 1500

\* weighted sum, then max(0.0, min(1.0, .))
overall_score(ta) ==
    LET sum == weights.volume * volume_score(ta)
               + weights.volatility * volatility_score(ta)
               + weights.momentum * opportunity_momentum_score(ta)
               + weights.trend * setup_score(ta)
               + weights.institutional * institutional_score
    IN IF volume_score(ta) = NegInfinity THEN 0
       ELSE Max(0, Min(100 * ScoreOne, sum))

OpportunityScore(ta) ==
    [overall_score |-> overall_score(ta), volume_score |-> volume_score(ta),
     volatility_score |-> volatility_score(ta),
     momentum_score |-> opportunity_momentum_score(ta),
     trend_score |-> setup_score(ta), institutional_score |-> institutional_score]

\* the inputs: a price with its daily range, a volume and a 24h change
ScoreRanges == {<<100, 103, 97>>, <<100, 100, 100>>, <<100, 120, 100>>, <<100, 140, 60>>,
                <<100, 110, 70>>, <<0, 103, 97>>, <<100, 101, 71>>}
ScoreChanges == {-20, -6, 0, 3, 10, 40}

ScoreInputs ==
    {[current_price |-> r[1], high_24h |-> r[2], low_24h |-> r[3],
      volume_24h |-> v, price_change_24h |-> p] :
        r \in ScoreRanges, v \in ScoreVolumes, p \in ScoreChanges}

CalcState(l, k, in, out) == [pc |-> l, kind |-> k, input |-> in, output |-> out]

NoScore ==
    [overall_score |-> 0, volume_score |-> 0, volatility_score |-> 0,
     momentum_score |-> 0, trend_score |-> 0, institutional_score |-> 0]

ScoreInit ==
    /\ CoreIdle /\ MachinesIdle /\ ScanIdle /\ WrapperIdle
    /\ \E ta \in ScoreInputs : calc = CalcState("ready", "score", ta, NoScore)

CalculateOpportunityScore ==
    /\ calc.pc = "ready" /\ calc.kind = "score"
    /\ calc' = [calc EXCEPT !.pc = "done", !.output = OpportunityScore(calc.input)]
    /\ UNCHANGED <<core_vars, machine_vars, scan, wrapper>>

ScoreNext == CalculateOpportunityScore

ScoreSpec == ScoreInit /\ [][ScoreNext]_vars

\* C23: the overall score is the weighted sum of the volume, volatility,
\* momentum and trend scores, and the weights of these four total 1.0.
C23_OverallIsWeightedSumOfFour ==
    (calc.pc = "done" /\ calc.kind = "score") =>
        /\ calc.output.overall_score =
               weights.volume * calc.output.volume_score
               + weights.volatility * calc.output.volatility_score
               + weights.momentum * calc.output.momentum_score
               + weights.trend * calc.output.trend_score
        /\ weights.volume + weights.volatility + weights.momentum + weights.trend = 100

\* C24: the volume, volatility, momentum and trend scores all lie in [0,1],
\* for every input.
C24_SubScoresWithinUnitInterval ==
    (calc.pc = "done" /\ calc.kind = "score") =>
        \A f \in {"volume_score", "volatility_score", "momentum_score", "trend_score"} :
            calc.output[f] >= 0 /\ calc.output[f] <= ScoreOne

\* ---------------------------------------------------------------------------
\* The position of the price within the Bollinger bands, in thousandths
\* (yuki_agent_service.py 334-336, binance_service.py 224-235)
\* ---------------------------------------------------------------------------

\* (bb_upper, bb_lower): bands around 100, a degenerate band, and the band
\* 0.0 / 0.0 the calculators return for a series shorter than the period
Bands == {<<105, 95>>, <<110, 90>>, <<100, 100>>, <<0, 0>>}

BandPrices == {80, 85, 90, 95, 100, 105, 110, 115, 120}

Engines == {"yuki", "binance"}

\* (current_price - bb_lower) / (bb_upper - bb_lower)
band_ratio(current_price, bb_upper, bb_lower) ==
    ((current_price - bb_lower) * 1000) \div (bb_upper - bb_lower)

\* Yuki: ... if bb_upper != bb_lower else 0.5
yuki_bb_position(current_price, bb_upper, bb_lower) ==
    IF bb_upper # bb_lower THEN band_ratio(current_price, bb_upper, bb_lower) ELSE 500

\* the exchange service: if bb_upper > bb_lower: ... else: 0.5
binance_band_position(current_price, bb_upper, bb_lower) ==
    IF bb_upper > bb_lower THEN band_ratio(current_price, bb_upper, bb_lower) ELSE 500

bb_position_of(in) ==
    IF in.engine = "yuki" THEN yuki_bb_position(in.current_price, in.bb_upper, in.bb_lower)
    ELSE binance_band_position(in.current_price, in.bb_upper, in.bb_lower)

BandInit ==
    /\ CoreIdle /\ MachinesIdle /\ ScanIdle /\ WrapperIdle
    /\ \E e \in Engines, p \in BandPrices, b \in Bands :
          calc = CalcState("ready", "bb",
                           [engine |-> e, current_price |-> p, bb_upper |-> b[1],
                            bb_lower |-> b[2]], 0)

CalculateBandPosition ==
    /\ calc.pc = "ready" /\ calc.kind = "bb"
    /\ calc' = [calc EXCEPT !.pc = "done", !.output = bb_position_of(calc.input)]
    /\ UNCHANGED <<core_vars, machine_vars, scan, wrapper>>

BandNext == CalculateBandPosition

BandSpec == BandInit /\ [][BandNext]_vars

\* C25: bb_position lies in [0,1] for every price and band, and is 0.5 when
\* the upper and the lower band are equal.
C25_BandPositionWithinUnitInterval ==
    (calc.pc = "done" /\ calc.kind = "bb") =>
        /\ calc.output >= 0 /\ calc.output <= 1000
        /\ calc.input.bb_upper = calc.input.bb_lower => calc.output = 500

\* ---------------------------------------------------------------------------
\* Level calculators against the reference rule (routes.py 578-602,
\* yuki_agent_service.py 744-754).  ATR is in price units like the price;
\* levels are in Units.
\* ---------------------------------------------------------------------------

AtrValues == {0, 1, 2, 5, 10}

LevelPrices == {1, 2, 10, 50, 100}

\* the reference: risk_distance = max(ATR_14, current_price x min_pct), stop
\* at 1.5, targets at 2 and 3.5 risk distances, mirrored for a short;
\* min_pct in percent
reference_levels(direction, current_price, atr_14, min_pct) ==
    LET entry == Units(current_price)
        risk_distance == Max(Units(atr_14), current_price * min_pct * 100000)
    IN  IF direction = "BUY"
          THEN Levels(entry, entry - (risk_distance + risk_distance \div 2),
                      entry + 2 * risk_distance, entry + (3 * risk_distance + risk_distance \div 2),
                      LevelNames)
          ELSE Levels(entry, entry + (risk_distance + risk_distance \div 2),
                      entry - 2 * risk_distance, entry - (3 * risk_distance + risk_distance \div 2),
                      LevelNames)

\* _calculate_entry_levels: atr = max(indicators.atr_14, current_price * 0.02);
\* the function has no direction and computes the levels of a long
routes_entry_levels(current_price, atr_14) ==
    LET atr == Max(Units(atr_14), current_price * 200000)
    IN  Levels(Units(current_price), Units(current_price) - (atr + atr \div 2),
               Units(current_price) + 2 * atr, Units(current_price) + (3 * atr + atr \div 2),
               LevelNames)

\* the share of the price each calculator takes as the least risk, in percent
min_pct_of(calculator) == IF calculator = "routes" THEN 2 ELSE 3

calculator_levels(in) ==
    IF in.calculator = "routes" THEN routes_entry_levels(in.current_price, in.atr_14)
    ELSE yuki_rule_levels(in.direction, in.current_price)

LevelInit ==
    /\ CoreIdle /\ MachinesIdle /\ ScanIdle /\ WrapperIdle
    /\ \E c \in {"routes", "yuki"}, d \in {"BUY", "SELL"}, p \in LevelPrices, a \in AtrValues :
          /\ c = "routes" => d = "BUY"
          /\ calc = CalcState("ready", "levels",
                              [calculator |-> c, direction |-> d, current_price |-> p,
                               atr_14 |-> a],
                              NoLevels)

CalculateLevels ==
    /\ calc.pc = "ready" /\ calc.kind = "levels"
    /\ calc' = [calc EXCEPT !.pc = "done", !.output = calculator_levels(calc.input)]
    /\ UNCHANGED <<core_vars, machine_vars, scan, wrapper>>

LevelNext == CalculateLevels

LevelSpec == LevelInit /\ [][LevelNext]_vars

\* C26: every level calculator gives the levels of the reference rule
\* (risk_distance = max(ATR, price x min_pct), stop at 1.5, targets at 2 and
\* 3.5 risk distances, mirrored for a short), for all prices and ATR values.
C26_LevelsFollowReference ==
    (calc.pc = "done" /\ calc.kind = "levels") =>
        calc.output = reference_levels(calc.input.direction, calc.input.current_price,
                                       calc.input.atr_14, min_pct_of(calc.input.calculator))

\* ---------------------------------------------------------------------------
\* Trend classification (yuki_agent_service.py 355-361, routes.py 454-464)
\* ---------------------------------------------------------------------------

TrendPrices == {90, 100, 110}

EmaValues == {95, 100, 105}

MacdLines == {-1, 0, 1}

\* Yuki: current_price > ema_20 > ema_50, current_price < ema_20 < ema_50
yuki_trend(in) ==
    IF in.current_price > in.ema_20 /\ in.ema_20 > in.ema_50 THEN "bullish"
    ELSE IF in.current_price < in.ema_20 /\ in.ema_20 < in.ema_50 THEN "bearish"
    ELSE "sideways"

\* _determine_trend: ema_20 against ema_50 and the sign of macd_line
determine_trend(in) ==
    IF in.ema_20 > in.ema_50 /\ in.macd_line > 0 THEN "bullish"
    ELSE IF in.ema_20 < in.ema_50 /\ in.macd_line < 0 THEN "bearish"
    ELSE "sideways"

trend_of(in) == IF in.classifier = "yuki" THEN yuki_trend(in) ELSE determine_trend(in)

\* the table: price, averages and MACD line all have to agree
reference_trend(in) ==
    IF in.current_price > in.ema_20 /\ in.ema_20 > in.ema_50 /\ in.macd_line > 0
      THEN "bullish"
    ELSE IF in.current_price < in.ema_20 /\ in.ema_20 < in.ema_50 /\ in.macd_line < 0
      THEN "bearish"
    ELSE "sideways"

TrendInit ==
    /\ CoreIdle /\ MachinesIdle /\ ScanIdle /\ WrapperIdle
    /\ \E c \in {"yuki", "routes"}, p \in TrendPrices, e20 \in EmaValues, e50 \in EmaValues,
          m \in MacdLines :
          calc = CalcState("ready", "trend",
                           [classifier |-> c, current_price |-> p, ema_20 |-> e20,
                            ema_50 |-> e50, macd_line |-> m], "none")

ClassifyTrend ==
    /\ calc.pc = "ready" /\ calc.kind = "trend"
    /\ calc' = [calc EXCEPT !.pc = "done", !.output = trend_of(calc.input)]
    /\ UNCHANGED <<core_vars, machine_vars, scan, wrapper>>

TrendNext == ClassifyTrend

TrendSpec == TrendInit /\ [][TrendNext]_vars

\* C27: every trend classifier answers bullish exactly when price > EMA20 >
\* EMA50 and MACD line > 0, bearish exactly when price < EMA20 < EMA50 and
\* MACD line < 0, and sideways otherwise.
C27_TrendFollowsTable ==
    (calc.pc = "done" /\ calc.kind = "trend") => calc.output = reference_trend(calc.input)

\* ---------------------------------------------------------------------------
\* The scanner's rate-limited call wrapper (yuki_agent_service.py 156-162,
\* 894-912).  The scanner is a process singleton, so api_calls_this_minute is
\* one list shared by every coroutine that is inside _rate_limited_api_call.
\* The window of 60 seconds is WindowTicks ticks of the clock and the ceiling
\* is max_calls_per_minute.
\*   wrapper.now                    the clock
\*   wrapper.api_calls_this_minute  the list of the scanner
\*   wrapper.executed               when each provider call went out, and the
\*                                  timestamp the wrapper recorded for it
\*   wrapper.callers[i]             the coroutine of caller i
\* ---------------------------------------------------------------------------

MaxWrapperTime == 5

MaxProviderCalls == 5

WrapperCaller(l, t, w, e) == [pc |-> l, current_time |-> t, wake |-> w, executed_at |-> e]

ProviderCall(e, r) == [executed_at |-> e, recorded |-> r]

WrapperInit ==
    /\ CoreIdle /\ MachinesIdle /\ ScanIdle /\ CalcIdle
    /\ wrapper = [pc |-> "run", now |-> 1, api_calls_this_minute |-> <<>>,
                  started |-> 0, executed |-> <<>>,
                  callers |-> [i \in Callers |-> WrapperCaller("idle", 0, 0, 0)]]

\* [call_time for call_time in ... if (current_time - call_time).seconds < 60]
clean_calls(times, current_time) ==
    SelectSeq(times, LAMBDA call_time : current_time - call_time < WindowTicks)

RECURSIVE min_call(_)
\* min(self.api_calls_this_minute)
min_call(times) ==
    IF Len(times) = 1 THEN Head(times) ELSE Min(Head(times), min_call(Tail(times)))

\* 60 - (current_time - min(self.api_calls_this_minute)).seconds
sleep_time(times, current_time) == WindowTicks - (current_time - min_call(times))

WrapperTick ==
    /\ wrapper.pc = "run"
    /\ wrapper.now < MaxWrapperTime
    /\ wrapper' = [wrapper EXCEPT !.now = wrapper.now + 1]
    /\ UNCHANGED <<core_vars, machine_vars, scan, calc>>

\* _rate_limited_api_call up to its first suspension: the list is cleaned
\* against current_time; a full list puts the caller to sleep, otherwise the
\* provider call goes out
RateLimitedBegin(i) ==
    /\ wrapper.pc = "run"
    /\ wrapper.callers[i].pc \in {"idle", "done"}
    /\ wrapper.started < MaxProviderCalls
    /\ LET current_time == wrapper.now
           cleaned == clean_calls(wrapper.api_calls_this_minute, current_time)
       IN  wrapper' =
             [wrapper EXCEPT
                !.api_calls_this_minute = cleaned,
                !.started = wrapper.started + 1,
                !.callers[i] =
                    IF Len(cleaned) >= max_calls_per_minute
                    THEN WrapperCaller("sleeping", current_time,
                                       current_time + sleep_time(cleaned, current_time), 0)
                    ELSE WrapperCaller("calling", current_time, 0, current_time)]
    /\ UNCHANGED <<core_vars, machine_vars, scan, calc>>

\* asyncio.sleep(sleep_time) is over: the provider call goes out with no
\* second look at the list
RateLimitedWakes(i) ==
    /\ wrapper.pc = "run"
    /\ wrapper.callers[i].pc = "sleeping"
    /\ wrapper.now >= wrapper.callers[i].wake
    /\ wrapper' = [wrapper EXCEPT !.callers[i].pc = "calling",
                                  !.callers[i].executed_at = wrapper.now]
    /\ UNCHANGED <<core_vars, machine_vars, scan, calc>>

\* result = await coro returns: current_time, read on entry, is appended
RateLimitedReturns(i) ==
    /\ wrapper.pc = "run"
    /\ wrapper.callers[i].pc = "calling"
    /\ wrapper' =
         [wrapper EXCEPT
            !.api_calls_this_minute = Append(wrapper.api_calls_this_minute,
                                             wrapper.callers[i].current_time),
            !.executed = Append(wrapper.executed,
                                ProviderCall(wrapper.callers[i].executed_at,
                                             wrapper.callers[i].current_time)),
            !.callers[i].pc = "done"]
    /\ UNCHANGED <<core_vars, machine_vars, scan, calc>>

WrapperNext ==
    \/ WrapperTick
    \/ \E i \in Callers : RateLimitedBegin(i)
    \/ \E i \in Callers : RateLimitedWakes(i)
    \/ \E i \in Callers : RateLimitedReturns(i)

WrapperSpec == WrapperInit /\ [][WrapperNext]_vars

\* the provider calls that have gone out, returned or not
calls_out ==
    [k \in 1..Len(wrapper.executed) |-> wrapper.executed[k].executed_at]
      \o LET busy == {i \in Callers : wrapper.callers[i].pc = "calling"}
             RECURSIVE list(_)
             list(S) == IF S = {} THEN <<>>
                        ELSE LET i == CHOOSE j \in S : TRUE
                             IN  <<wrapper.callers[i].executed_at>> \o list(S \ {i})
         IN  list(busy)

executed_in_span(t) ==
    Len(SelectSeq(calls_out, LAMBDA e : e >= t /\ e < t + WindowTicks))

\* C28: no span of 60 seconds holds more executed provider calls than
\* max_calls_per_minute, and the timestamp recorded for a call is not earlier
\* than the moment the call was executed.
C28_WrapperKeepsTheCeiling ==
    wrapper.pc = "run" =>
        /\ \A t \in 1..MaxWrapperTime : executed_in_span(t) <= max_calls_per_minute
        /\ \A k \in 1..Len(wrapper.executed) :
              wrapper.executed[k].recorded >= wrapper.executed[k].executed_at

\* C29: whatever the interleaving of the callers of acquire, any two granted
\* acquisitions have recorded timestamps at least min_request_interval (one
\* tick of the clock) apart.
C29_GrantsAreSpacedByMinInterval ==
    binance.pc = "run" =>
        \A k, l \in 1..Len(binance.granted) :
            k < l => binance.granted[l] - binance.granted[k] >= 1

\* C30: in the Virtuals request handler execute_service is invoked at most
\* once for a request, only after create_request answered success and with
\* the request id of that answer; when the creation fails no agent is run
\* and the request is rejected; a request type other than analyze or
\* execute creates no ACP request.
C30_ExecuteOnlyAfterCreation ==
    acp.pc = "run" =>
        \A i \in Requests :
            LET handler == acp.handlers[i]
                made == acp.calls[i]
            IN  /\ Len(made.executed) <= 1
                /\ made.executed # <<>> =>
                       made.created = "success" /\ made.executed[1] = made.request_id
                /\ handler.pc \in {"routing"} \/ handler.status \in {"success", "error"} =>
                       made.executed # <<>>
                /\ made.created \in {"failed", "error"} =>
                       /\ made.executed = <<>>
                       /\ handler.pc = "done" /\ handler.status = "rejected"
                       /\ handler.routed = NoContext
                /\ handler.request.requestType \notin RequestTypes =>
                       made.created = "none" /\ made.executed = <<>>

\* one request executed after its creation, another rejected because its
\* creation failed
C30_Witness ==
    /\ acp.pc = "run"
    /\ \E i, j \in Requests :
          /\ acp.calls[i].created = "success" /\ acp.calls[i].executed = <<i>>
          /\ acp.handlers[i].status = "success"
          /\ acp.calls[j].created \in {"failed", "error"}
          /\ acp.handlers[j].status = "rejected"

====
